---------------------------- MODULE Spec2Model ----------------------------
(***************************************************************************)
(* A model of custom_components/battery_notes/__init__.py: the entry point *)
(* of the Battery Notes integration.  Three specifications share the       *)
(* module's variables:                                                     *)
(*   SpecMigrate  async_migrate_entry on one config entry                  *)
(*   SpecSetup    async_setup, one await at a time                         *)
(*   Spec         the config-entry lifecycle, the option-update listener,  *)
(*                async_remove_entry and the battery_replaced service      *)
(***************************************************************************)
EXTENDS Integers, Sequences, FiniteSets, TLC

VARIABLES
    \* ---- async_migrate_entry ----
    version,        \* config_entry.version
    title,          \* config_entry.title
    heap,           \* the dict objects allocated so far, by reference 1..Len(heap)
    dataRef,        \* which object config_entry.data is
    updateCalls,    \* the async_update_entry calls made, in order
    migrateCalls,   \* how many times async_migrate_entry has been called
    lastRet,        \* what the last call returned
    \* ---- async_setup ----
    haVersion,      \* homeassistant.const.__version__, as <<year, month>>
    config,         \* config.get(DOMAIN), after CONFIG_SCHEMA
    setupPc,        \* where async_setup is
    hassData,       \* hass.data[DOMAIN]
    setupLog,       \* what async_setup has done, in order
    setupRet,       \* what async_setup returned
    \* ---- config entries, listeners, services ----
    entryState,     \* each battery_notes entry's state in hass.config_entries
    entryData,      \* each battery_notes entry's data mapping
    deviceRegistry, \* device id -> the device's config_entries
    updateListeners,\* entry.update_listeners, as a number of listeners
    onUnload,       \* entry's async_on_unload callbacks (listener unsubscribes)
    pendingReloads, \* async_update_options tasks created and not yet run
    reloadLog,      \* the async_reload calls the last option update led to
    services,       \* hass.services: the registrations, in order
    removeLog,      \* coordinator calls of the last async_remove_entry
    coordReads,     \* hass.data[DOMAIN][DATA_COORDINATOR] reads of that call
    \* ---- one battery_replaced service call ----
    callPc,         \* "idle" or "await_refresh"
    call,           \* call.data
    datetime_replaced, \* the handler's local of that name
    callOrder,      \* device_entry.config_entries in iteration order
    callIdx,        \* how many of them the loop has taken
    callLog,        \* the coordinator calls of this service call
    callRet,        \* "none", "running" or "returned"
    now             \* the UTC clock

migrateVars == <<version, title, heap, dataRef, updateCalls, migrateCalls, lastRet>>
setupVars == <<haVersion, config, setupPc, hassData, setupLog, setupRet>>
entryVars == <<entryState, entryData, deviceRegistry, updateListeners, onUnload,
               pendingReloads, reloadLog, services, removeLog, coordReads>>
callVars == <<callPc, call, datetime_replaced, callOrder, callIdx, callLog,
              callRet, now>>

vars == <<migrateVars, setupVars, entryVars, callVars>>

(***************************************************************************)
(* Python values.  A str is a sequence of one-character strings; an int    *)
(* and a str are different values even when they print alike.              *)
(***************************************************************************)
PyStr(s) == [ty |-> "str", v |-> s]
PyInt(n) == [ty |-> "int", v |-> n]

\* const.py names (the keys of config_entry.data)
CONF_BATTERY_TYPE == "battery_type"
CONF_BATTERY_QUANTITY == "battery_quantity"
CONF_DEVICE_ID == "device_id"

\* config_flow.CONFIG_VERSION: the version async_migrate_entry migrates to
CONFIG_VERSION == 2

(***************************************************************************)
(* The characters the model draws battery-type strings from, by the        *)
(* classes the regular expression tells apart.                             *)
(***************************************************************************)
DigitChars == {"0", "2"}
SpaceChars == {" ", "\n"}
WordChars == DigitChars \cup {"x", "A"}
Chars == DigitChars \cup SpaceChars \cup WordChars

\* the longest battery-type string
MaxLen == 5
\* how many times async_migrate_entry is called on the entry
MaxMigrateCalls == 2

Strings == UNION {[1..n -> Chars] : n \in 0..MaxLen}

None == [ty |-> "None", v |-> <<>>]

(***************************************************************************)
(* re.search(r"^(\d+)(?=x)(?:x\s)(\w+$)|([\s\S]+)", s)                     *)
(***************************************************************************)
\* "$" without re.MULTILINE: at the end of the string, or just before a
\* newline that is the string's last character
AtDollar(s, p) ==
    \/ p = Len(s)
    \/ p = Len(s) - 1 /\ s[Len(s)] = "\n"

\* The first alternative, tried at position 0 only ("^"): k digits, the
\* lookahead and the "x", one whitespace, m word characters, "$".
\* The result is the set of <<k, m>> the backtracking search can end on.
FirstAlternative(s) ==
    {km \in (1..Len(s)) \X (1..Len(s)) :
        LET k == km[1]
            m == km[2]
        IN  /\ k + 2 + m <= Len(s)
            /\ \A i \in 1..k : s[i] \in DigitChars
            /\ s[k + 1] = "x"
            /\ s[k + 2] \in SpaceChars
            /\ \A i \in (k + 3)..(k + 2 + m) : s[i] \in WordChars
            /\ AtDollar(s, k + 2 + m)}

\* Greedy quantifiers: the longest digit run first, then the longest word.
Greedy(kms) ==
    CHOOSE km \in kms :
        \A o \in kms : o[1] < km[1] \/ (o[1] = km[1] /\ o[2] <= km[2])

\* The second alternative at start position p (0-based): [\s\S]+ takes
\* every remaining character, and needs one.
SecondAlternative(s, p) == p < Len(s)

\* The match object's groups 1..3, or None when nothing matches.
ReSearch(s) ==
    IF FirstAlternative(s) # {}
    THEN LET km == Greedy(FirstAlternative(s))
         IN  [ty |-> "Match",
              v |-> <<PyStr(SubSeq(s, 1, km[1])),
                      PyStr(SubSeq(s, km[1] + 3, km[1] + 2 + km[2])),
                      None>>]
    ELSE IF \E p \in 0..Len(s) : SecondAlternative(s, p)
    THEN LET p == CHOOSE q \in 0..Len(s) :
                      /\ SecondAlternative(s, q)
                      /\ \A r \in 0..(q - 1) : ~SecondAlternative(s, r)
         IN  [ty |-> "Match",
              v |-> <<None, None, PyStr(SubSeq(s, p + 1, Len(s)))>>]
    ELSE None

\* lines 156-163: the quantity and the type the migration stores
MigratedQty(s) ==
    LET matches == ReSearch(s)
    IN  IF matches # None
        THEN IF matches.v[1] # None THEN matches.v[1] ELSE PyStr(<<"1">>)
        ELSE PyInt(1)

MigratedType(s) ==
    LET matches == ReSearch(s)
    IN  IF matches # None
        THEN IF matches.v[2] # None THEN matches.v[2] ELSE matches.v[3]
        ELSE PyStr(s)

\* A migration that builds the new data from the two keys alone
NewDataFromScratch(data, type, qty) ==
    [k \in {CONF_BATTERY_TYPE, CONF_BATTERY_QUANTITY} |->
        IF k = CONF_BATTERY_TYPE THEN type ELSE qty]

\* lines 165-167: new_data = {**config_entry.data} with the two keys set
NewData(data, type, qty) ==
    [k \in DOMAIN data \cup {CONF_BATTERY_TYPE, CONF_BATTERY_QUANTITY} |->
        IF k = CONF_BATTERY_TYPE THEN type
        ELSE IF k = CONF_BATTERY_QUANTITY THEN qty
        ELSE data[k]]

\* The titles and device ids config entries are drawn from
Titles == {"Remote", "Sensor"}

\* A version-1 entry's data: the single battery-type string and the keys
\* the migration has nothing to do with.
OldData(s) ==
    [k \in {CONF_BATTERY_TYPE, CONF_DEVICE_ID} |->
        IF k = CONF_BATTERY_TYPE THEN PyStr(s) ELSE PyStr(<<"d", "1">>)]

(***************************************************************************)
(* async_setup                                                             *)
(***************************************************************************)
CONF_ENABLE_AUTODISCOVERY == "enable_autodiscovery"
CONF_USER_LIBRARY == "user_library"
CONF_SHOW_ALL_DEVICES == "show_all_devices"
CONF_ENABLE_REPLACED == "enable_replaced"
DOMAIN_CONFIG == "domain_config"
DATA_COORDINATOR == "coordinator"
DATA_LIBRARY_UPDATER == "library_updater"

\* line 53, as <<year, month>>
MIN_HA_VERSION == <<2023, 7>>

\* The host versions the integration may be loaded by
HaVersions == {<<2022, 12>>, <<2023, 6>>, <<2023, 7>>, <<2024, 1>>}

\* AwesomeVersion's "<" on year.month versions: section by section
VersionLess(a, b) == a[1] < b[1] \/ (a[1] = b[1] /\ a[2] < b[2])

\* A value that may be missing: config.get(DOMAIN) is None without the
\* battery_notes key in configuration.yaml
Absent == [present |-> FALSE, v |-> <<>>]
Present(m) == [present |-> TRUE, v |-> m]

\* lines 57-71: what the user may write under battery_notes:, each option
\* left out or given
YamlKeys == {CONF_ENABLE_AUTODISCOVERY, CONF_USER_LIBRARY,
             CONF_SHOW_ALL_DEVICES, CONF_ENABLE_REPLACED}
BoolKeys == {CONF_ENABLE_AUTODISCOVERY, CONF_SHOW_ALL_DEVICES, CONF_ENABLE_REPLACED}
Yaml(bools, lib) ==
    [k \in DOMAIN bools \cup DOMAIN lib |->
        IF k \in DOMAIN bools THEN bools[k] ELSE lib[k]]
YamlBools == UNION {[ks -> BOOLEAN] : ks \in SUBSET BoolKeys}
YamlLibs == UNION {[ks -> {"", "lib.json"}] : ks \in SUBSET {CONF_USER_LIBRARY}}

SchemaDefault(k) ==
    IF k = CONF_ENABLE_AUTODISCOVERY THEN TRUE
    ELSE IF k = CONF_USER_LIBRARY THEN ""
    ELSE IF k = CONF_SHOW_ALL_DEVICES THEN FALSE
    ELSE TRUE

\* lines 57-71: the schema fills in the default of every option left out
CONFIG_SCHEMA(yaml) ==
    [k \in YamlKeys |-> IF k \in DOMAIN yaml THEN yaml[k] ELSE SchemaDefault(k)]

\* Python truthiness of config.get(DOMAIN): None and {} are falsy
Falsy(c) == ~c.present \/ DOMAIN c.v = {}

\* lines 85-89
DomainConfig(c) ==
    IF Falsy(c)
    THEN [k \in {CONF_ENABLE_AUTODISCOVERY, CONF_SHOW_ALL_DEVICES,
                 CONF_ENABLE_REPLACED} |->
             IF k = CONF_SHOW_ALL_DEVICES THEN FALSE ELSE TRUE]
    ELSE c.v

\* dict.get(key): None (falsy) for a missing key
Get(m, k) == IF k \in DOMAIN m THEN m[k] ELSE FALSE

\* A setup that starts discovery whatever the configuration says
DiscoveryAlways(domain_config) == TRUE

\* line 108
DiscoveryEnabled(domain_config) == Get(domain_config, CONF_ENABLE_AUTODISCOVERY)

\* lines 76-95: up to the first await
SetupStart ==
    /\ setupPc = "start"
    /\ IF VersionLess(haVersion, MIN_HA_VERSION)
       THEN /\ setupRet' = "False"
            /\ setupPc' = "returned"
            /\ UNCHANGED <<hassData, setupLog>>
       ELSE /\ hassData' = [k \in {DOMAIN_CONFIG} |-> DomainConfig(config)]
            /\ setupLog' = Append(setupLog, "data_set")
            /\ setupPc' = "await_registry"
            /\ UNCHANGED setupRet
    /\ UNCHANGED <<haVersion, config>>
    /\ UNCHANGED <<migrateVars, entryVars, callVars>>

\* lines 95-102: the store is there; the coordinator is made and stored
SetupRegistryLoaded ==
    /\ setupPc = "await_registry"
    /\ hassData' = [k \in DOMAIN hassData \cup {DATA_COORDINATOR} |->
                       IF k = DATA_COORDINATOR THEN "BatteryNotesCoordinator"
                       ELSE hassData[k]]
    /\ setupLog' = Append(setupLog, "coordinator_stored")
    /\ setupPc' = "await_library"
    /\ UNCHANGED <<haVersion, config, setupRet>>
    /\ UNCHANGED <<migrateVars, entryVars, callVars>>

\* lines 102-106: get_library_updates has completed
SetupLibraryUpdated ==
    /\ setupPc = "await_library"
    /\ hassData' = [k \in DOMAIN hassData \cup {DATA_LIBRARY_UPDATER} |->
                       IF k = DATA_LIBRARY_UPDATER THEN "LibraryUpdater"
                       ELSE hassData[k]]
    /\ setupLog' = Append(setupLog, "library_updated")
    /\ setupPc' = "await_refresh"
    /\ UNCHANGED <<haVersion, config, setupRet>>
    /\ UNCHANGED <<migrateVars, entryVars, callVars>>

\* lines 106-114: async_refresh has completed
SetupRefreshed ==
    /\ setupPc = "await_refresh"
    /\ IF DiscoveryEnabled(hassData[DOMAIN_CONFIG])
       THEN /\ setupLog' = setupLog \o <<"refreshed", "discovery_started">>
            /\ setupPc' = "await_discovery"
            /\ UNCHANGED setupRet
       ELSE /\ setupLog' = Append(setupLog, "refreshed")
            /\ setupPc' = "returned"
            /\ setupRet' = "True"
    /\ UNCHANGED <<haVersion, config, hassData>>
    /\ UNCHANGED <<migrateVars, entryVars, callVars>>

\* lines 110-114: start_discovery has completed
SetupDiscoveryStarted ==
    /\ setupPc = "await_discovery"
    /\ setupPc' = "returned"
    /\ setupRet' = "True"
    /\ UNCHANGED <<haVersion, config, hassData, setupLog>>
    /\ UNCHANGED <<migrateVars, entryVars, callVars>>

async_setup ==
    \/ SetupStart
    \/ SetupRegistryLoaded
    \/ SetupLibraryUpdated
    \/ SetupRefreshed
    \/ SetupDiscoveryStarted

(***************************************************************************)
(* async_migrate_entry                                                     *)
(***************************************************************************)
\* A migration that runs on every entry, whatever its version
NeedsMigrationAlways(v) == v >= 1

\* line 149: the entry is migrated when its version is 1
NeedsMigration(v) == v = 1

\* lines 145-181
async_migrate_entry ==
    /\ migrateCalls < MaxMigrateCalls
    /\ migrateCalls' = migrateCalls + 1
    /\ lastRet' = "True"
    /\ IF NeedsMigration(version)
       THEN LET old == heap[dataRef]
                s == old[CONF_BATTERY_TYPE].v
                new_data == NewData(old, MigratedType(s), MigratedQty(s))
            IN  /\ heap' = Append(heap, new_data)
                /\ version' = CONFIG_VERSION
                \* hass.config_entries.async_update_entry(entry, title=, data=)
                /\ updateCalls' = Append(updateCalls,
                                         [title |-> title, data |-> Len(heap) + 1])
                /\ title' = title
                /\ dataRef' = Len(heap) + 1
       ELSE UNCHANGED <<version, title, heap, dataRef, updateCalls>>
    /\ UNCHANGED <<setupVars, entryVars, callVars>>

(***************************************************************************)
(* Config entries, the update listener, the service registry               *)
(***************************************************************************)
Domain == "battery_notes"
SERVICE_BATTERY_REPLACED == "battery_replaced"
ATTR_REMOVE == "remove"
ATTR_DEVICE_ID == "device_id"
ATTR_DATE_TIME_REPLACED == "datetime_replaced"

\* The battery_notes config entries, the devices of the device registry,
\* and the config entry ids a device carries that are not battery_notes
\* entries: another integration's entry, and an id no entry has.
BatteryEntries == {"e1", "e2"}
Devices == {"d1", "d2"}
OtherEntries == {"o1"}
ForeignIds(d) == IF d = "d1" THEN {"o1"} ELSE {"o1", "gone"}

\* A battery_notes entry's data: tied to a device, or to an entity only
EntryDatas ==
    {[k \in {CONF_DEVICE_ID, CONF_BATTERY_TYPE} |->
         IF k = CONF_DEVICE_ID THEN "d1" ELSE "AA"],
     [k \in {"source_entity_id", CONF_BATTERY_TYPE} |->
         IF k = CONF_BATTERY_TYPE THEN "AA" ELSE "sensor.door"]}

\* line 132
HasDeviceId(data) == CONF_DEVICE_ID \in DOMAIN data

\* the longest the UTC clock runs
MaxTime == 1
\* how many async_update_options tasks of one entry may wait to run
MaxPending == 1

\* hass.services.async_register: one handler per (domain, service); a
\* second registration of the name replaces the first
OtherService(r) ==
    ~(r.domain = Domain /\ r.service = SERVICE_BATTERY_REPLACED)

\* lines 194-237
register_services(svcs) ==
    Append(SelectSeq(svcs, OtherService),
           [domain |-> Domain, service |-> SERVICE_BATTERY_REPLACED,
            handler |-> "handle_battery_replaced"])

\* A setup that adds the listener and never hands its unsubscribe to
\* async_on_unload
OnUnloadNotRegistered(n) == n

\* line 121: entry.async_on_unload(entry.add_update_listener(...))
ListenersAfterSetup(n) == n + 1
OnUnloadAfterSetup(n) == n + 1

\* An unload that also removes the service
ServicesRemovedOnUnload(svcs) == SelectSeq(svcs, OtherService)

\* lines 189-191: async_unload_entry unloads the platforms, nothing else
ServicesAfterUnload(svcs) == svcs

\* The host runs the entry's on-unload callbacks: each unsubscribes one
\* listener
ListenersAfterUnload(n, unsubs) == IF n >= unsubs THEN n - unsubs ELSE 0

\* line 119: the host calls async_setup_entry; it awaits the platforms
SetupEntryBegin(e) ==
    /\ entryState[e] \in {"not_loaded", "setup_error"}
    /\ entryState' = [entryState EXCEPT ![e] = "setup_in_progress"]
    /\ UNCHANGED <<entryData, deviceRegistry, updateListeners, onUnload,
                   pendingReloads, reloadLog, services, removeLog, coordReads>>
    /\ UNCHANGED <<migrateVars, setupVars, callVars>>

\* lines 119-126: the platforms are set up (ok) or raised
async_setup_entry(e, ok) ==
    /\ entryState[e] = "setup_in_progress"
    /\ IF ok
       THEN /\ updateListeners' =
                   [updateListeners EXCEPT ![e] = ListenersAfterSetup(@)]
            /\ onUnload' = [onUnload EXCEPT ![e] = OnUnloadAfterSetup(@)]
            /\ services' = register_services(services)
            /\ entryState' = [entryState EXCEPT ![e] = "loaded"]
       ELSE /\ entryState' = [entryState EXCEPT ![e] = "setup_error"]
            /\ UNCHANGED <<updateListeners, onUnload, services>>
    /\ UNCHANGED <<entryData, deviceRegistry, pendingReloads, reloadLog,
                   removeLog, coordReads>>
    /\ UNCHANGED <<migrateVars, setupVars, callVars>>

\* lines 189-191, and the host's handling of what it returns
async_unload_entry(e, ok) ==
    /\ entryState[e] = "loaded"
    /\ services' = ServicesAfterUnload(services)
    /\ IF ok
       THEN /\ updateListeners' =
                   [updateListeners EXCEPT
                       ![e] = ListenersAfterUnload(@, onUnload[e])]
            /\ onUnload' = [onUnload EXCEPT ![e] = 0]
            /\ entryState' = [entryState EXCEPT ![e] = "not_loaded"]
       ELSE /\ entryState' = [entryState EXCEPT ![e] = "failed_unload"]
            /\ UNCHANGED <<updateListeners, onUnload>>
    /\ UNCHANGED <<entryData, deviceRegistry, pendingReloads, reloadLog,
                   removeLog, coordReads>>
    /\ UNCHANGED <<migrateVars, setupVars, callVars>>

\* The host changes an entry's options and calls every update listener:
\* each call is one async_update_options task (lines 183-186)
OptionsUpdated(e) ==
    /\ entryState[e] # "removed"
    /\ pendingReloads[e] < MaxPending
    /\ reloadLog' = [i \in 1..updateListeners[e] |-> e]
    /\ pendingReloads' = [pendingReloads EXCEPT ![e] = @ + updateListeners[e]]
    /\ UNCHANGED <<entryState, entryData, deviceRegistry, updateListeners,
                   onUnload, services, removeLog, coordReads>>
    /\ UNCHANGED <<migrateVars, setupVars, callVars>>

\* line 186: hass.config_entries.async_reload(entry.entry_id) unloads a
\* loaded entry and sets it up again
async_update_options(e, ok) ==
    /\ pendingReloads[e] > 0
    /\ pendingReloads' = [pendingReloads EXCEPT ![e] = @ - 1]
    /\ IF entryState[e] = "loaded"
       THEN /\ services' = ServicesAfterUnload(services)
            /\ IF ok
               THEN /\ updateListeners' =
                           [updateListeners EXCEPT
                               ![e] = ListenersAfterUnload(@, onUnload[e])]
                    /\ onUnload' = [onUnload EXCEPT ![e] = 0]
                    /\ entryState' =
                           [entryState EXCEPT ![e] = "setup_in_progress"]
               ELSE /\ entryState' = [entryState EXCEPT ![e] = "failed_unload"]
                    /\ UNCHANGED <<updateListeners, onUnload>>
       ELSE /\ entryState' =
                   [entryState EXCEPT
                       ![e] = IF @ \in {"not_loaded", "setup_error"}
                              THEN "setup_in_progress" ELSE @]
            /\ UNCHANGED <<updateListeners, onUnload, services>>
    /\ UNCHANGED <<entryData, deviceRegistry, reloadLog, removeLog, coordReads>>
    /\ UNCHANGED <<migrateVars, setupVars, callVars>>

\* A removal that passes the flag unset
RemoveDataUnset == [k \in {ATTR_REMOVE} |-> FALSE]

\* line 138
RemoveData == [k \in {ATTR_REMOVE} |-> TRUE]

\* lines 129-142; the host has unloaded the entry, and drops it and its
\* device links
async_remove_entry(e) ==
    /\ entryState[e] \in {"not_loaded", "setup_error", "failed_unload"}
    /\ IF ~HasDeviceId(entryData[e])
       THEN /\ removeLog' = <<>>
            /\ coordReads' = 0
       ELSE /\ coordReads' = 1
            /\ removeLog' = <<[op |-> "async_update_device_config",
                               device_id |-> entryData[e][CONF_DEVICE_ID],
                               data |-> RemoveData]>>
    /\ entryState' = [entryState EXCEPT ![e] = "removed"]
    /\ deviceRegistry' = [d \in Devices |-> deviceRegistry[d] \ {e}]
    /\ UNCHANGED <<entryData, updateListeners, onUnload, pendingReloads,
                   reloadLog, services>>
    /\ UNCHANGED <<migrateVars, setupVars, callVars>>

(***************************************************************************)
(* The battery_replaced service                                            *)
(***************************************************************************)
\* Date-times: a wall-clock hour and a tzinfo (None for a naive one)
NaiveTz == "None"
UTC == "UTC"
\* dt_util.DEFAULT_TIME_ZONE, the zone the host is configured for
DEFAULT_TIME_ZONE == "+02:00"
UtcOffset(tz) == IF tz = UTC THEN 0 ELSE IF tz = "+01:00" THEN 1 ELSE 2

Datetime(w, tz) == [ty |-> "datetime", v |-> <<w, tz>>]
Wall(dt) == dt.v[1]
TzInfo(dt) == dt.v[2]

\* What a caller may give as datetime_replaced
SuppliedDatetimes ==
    {Datetime(10, tz) : tz \in {NaiveTz, UTC, "+01:00"}}

\* dt_util.as_utc: a naive date-time is taken to be in the default zone
as_utc(dt) ==
    IF TzInfo(dt) = UTC THEN dt
    ELSE LET tz == IF TzInfo(dt) = NaiveTz THEN DEFAULT_TIME_ZONE ELSE TzInfo(dt)
         IN  Datetime(Wall(dt) - UtcOffset(tz), UTC)

\* datetime.replace(tzinfo=None)
DropTz(dt) == Datetime(Wall(dt), NaiveTz)

\* datetime.utcnow(): naive, on the UTC clock
utcnow(clock) == Datetime(clock, NaiveTz)

\* call.data: each key given or left out
CallData(dev, dt) ==
    [k \in (IF dev = "" THEN {} ELSE {ATTR_DEVICE_ID})
           \cup (IF dt = None THEN {} ELSE {ATTR_DATE_TIME_REPLACED}) |->
        IF k = ATTR_DEVICE_ID THEN PyStr(dev) ELSE dt]

\* lines 200-201: dict.get with and without a default
CallDeviceId(data) ==
    IF ATTR_DEVICE_ID \in DOMAIN data THEN data[ATTR_DEVICE_ID].v ELSE ""
CallDatetime(data) ==
    IF ATTR_DATE_TIME_REPLACED \in DOMAIN data
    THEN data[ATTR_DATE_TIME_REPLACED] ELSE None

\* A handler that converts to UTC and keeps the tzinfo
DatetimeReplacedKeepsTz(data, clock) ==
    IF CallDatetime(data) # None
    THEN as_utc(CallDatetime(data))
    ELSE utcnow(clock)

\* lines 203-206
DatetimeReplaced(data, clock) ==
    IF CallDatetime(data) # None
    THEN DropTz(as_utc(CallDatetime(data)))
    ELSE utcnow(clock)

\* line 216: hass.config_entries.async_get_entry(entry_id), as the domain
\* of the entry found, or "None"
async_get_entry(id) ==
    IF id \in BatteryEntries /\ entryState[id] # "removed" THEN Domain
    ELSE IF id \in OtherEntries THEN "zha"
    ELSE "None"

\* A loop that takes every entry found, whatever its domain
IsAnyEntry(id) == async_get_entry(id) # "None"

\* lines 215-217: (entry := async_get_entry(entry_id)) and entry.domain == DOMAIN
IsBatteryNotesEntry(id) ==
    async_get_entry(id) # "None" /\ async_get_entry(id) = Domain

\* the orders a set may be iterated in
Orders(S) ==
    {o \in [1..Cardinality(S) -> S] : \A i, j \in DOMAIN o : o[i] = o[j] => i = j}

\* lines 219-226: what one taken entry adds to the coordinator's calls
EntryCalls(device_id, value) ==
    <<[op |-> "async_update_device_config", device_id |-> device_id,
       data |-> [k \in {"battery_last_replaced"} |-> value]],
      [op |-> "async_request_refresh", device_id |-> device_id,
       data |-> [k \in {} |-> value]]>>

\* lines 214-230: the loop from position i of the iteration order, up to
\* its next await or to its return, where the handler's locals end
RunLoop(order, i, device_id, value, log) ==
    LET taken == {j \in i..Len(order) : IsBatteryNotesEntry(order[j])}
    IN  IF taken = {}
        THEN /\ callOrder' = <<>>
             /\ callIdx' = 0
             /\ datetime_replaced' = None
             /\ callLog' = log
             /\ callPc' = "idle"
             /\ callRet' = "returned"
        ELSE LET j == CHOOSE m \in taken : \A o \in taken : m <= o
             IN  /\ callOrder' = order
                 /\ callIdx' = j
                 /\ datetime_replaced' = value
                 /\ callLog' = log \o EntryCalls(device_id, value)
                 /\ callPc' = "await_refresh"
                 /\ callRet' = "running"

Registered ==
    \E i \in 1..Len(services) :
        services[i].domain = Domain /\ services[i].service = SERVICE_BATTERY_REPLACED

\* lines 208-212: the config entries of the device, none when the device
\* registry has no such device
DeviceConfigEntries(device_id) ==
    IF device_id \notin DOMAIN deviceRegistry THEN {} ELSE deviceRegistry[device_id]

\* lines 198-226: a service call, up to its first await or its return
handle_battery_replaced(dev, dt) ==
    /\ Registered
    /\ callPc = "idle"
    /\ call' = CallData(dev, dt)
    /\ \E order \in Orders(DeviceConfigEntries(CallDeviceId(call'))) :
           RunLoop(order, 1, CallDeviceId(call'), DatetimeReplaced(call', now), <<>>)
    /\ UNCHANGED now
    /\ UNCHANGED <<migrateVars, setupVars, entryVars>>

\* lines 226-230: async_request_refresh has completed; the loop goes on
RefreshDone ==
    /\ callPc = "await_refresh"
    /\ RunLoop(callOrder, callIdx + 1, CallDeviceId(call), datetime_replaced,
               callLog)
    /\ UNCHANGED <<call, now>>
    /\ UNCHANGED <<migrateVars, setupVars, entryVars>>

\* time passes
Tick ==
    /\ now < MaxTime
    /\ now' = now + 1
    /\ UNCHANGED <<callPc, call, datetime_replaced, callOrder, callIdx,
                   callLog, callRet>>
    /\ UNCHANGED <<migrateVars, setupVars, entryVars>>

(***************************************************************************)
(* Properties of async_migrate_entry (checked under SpecMigrate)           *)
(***************************************************************************)
\* the entry has been migrated: async_update_entry was called
Migrated == updateCalls # <<>>
\* the battery-type string the version-1 entry held
OriginalType == heap[1][CONF_BATTERY_TYPE].v
\* the data the entry holds now
StoredData == heap[dataRef]

\* s is <one or more digits> "x" <one whitespace> <one or more word characters>
FormAt(s, k) ==
    /\ k >= 1
    /\ k + 3 <= Len(s)
    /\ \A i \in 1..k : s[i] \in DigitChars
    /\ s[k + 1] = "x"
    /\ s[k + 2] \in SpaceChars
    /\ \A i \in (k + 3)..Len(s) : s[i] \in WordChars
IsExactForm(s) == \E k \in 1..Len(s) : FormAt(s, k)
LeadingDigits(s) == LET k == CHOOSE n \in 1..Len(s) : FormAt(s, n) IN SubSeq(s, 1, k)
TrailingWord(s) ==
    LET k == CHOOSE n \in 1..Len(s) : FormAt(s, n) IN SubSeq(s, k + 3, Len(s))

\* C1: a migrated version-1 entry holds, for a string of the exact form
\* <digits> x <whitespace> <word>, the digit run as quantity and the word
\* as type; for every other non-empty string, quantity "1" and the string
\* unchanged as type.
C1_SplitsExactForm ==
    Migrated =>
        LET s == OriginalType
        IN  /\ IsExactForm(s) =>
                  /\ StoredData[CONF_BATTERY_QUANTITY] = PyStr(LeadingDigits(s))
                  /\ StoredData[CONF_BATTERY_TYPE] = PyStr(TrailingWord(s))
            /\ (~IsExactForm(s) /\ s # <<>>) =>
                  /\ StoredData[CONF_BATTERY_QUANTITY] = PyStr(<<"1">>)
                  /\ StoredData[CONF_BATTERY_TYPE] = PyStr(s)

\* C2: the migration is one-time.  A call on a version-1 entry leaves the
\* version at CONFIG_VERSION; a call on an entry of any other version (a
\* migrated entry among them) calls no async_update_entry and leaves
\* version, title and data as they are; every call returns True; so
\* async_update_entry is called at most once on an entry.
C2_MigrationIsOneTime ==
    /\ [][migrateCalls' = migrateCalls + 1 =>
             /\ lastRet' = "True"
             /\ version = 1 => version' = CONFIG_VERSION /\ version' # 1
             /\ version # 1 =>
                    /\ updateCalls' = updateCalls
                    /\ version' = version
                    /\ title' = title
                    /\ dataRef' = dataRef
                    /\ heap' = heap]_vars
    /\ [](Len(updateCalls) <= 1)

\* C2's case: a migrated entry on which async_migrate_entry ran again
C2_Witness ==
    /\ Migrated
    /\ migrateCalls = 2
    /\ version = CONFIG_VERSION
    /\ lastRet = "True"

\* C7: a migrating call passes async_update_entry the entry's title and a
\* new mapping that has every other key of the old data with its value and
\* adds only the type and the quantity; no existing mapping is changed.
C7_MigrationFrame ==
    [][updateCalls' # updateCalls =>
          LET old == heap[dataRef]
              passed == updateCalls'[Len(updateCalls')]
              new == heap'[passed.data]
          IN  /\ Len(updateCalls') = Len(updateCalls) + 1
              /\ passed.title = title
              /\ title' = title
              /\ passed.data \notin 1..Len(heap)
              /\ \A r \in 1..Len(heap) : heap'[r] = heap[r]
              /\ DOMAIN new =
                     DOMAIN old \cup {CONF_BATTERY_TYPE, CONF_BATTERY_QUANTITY}
              /\ \A k \in DOMAIN old \ {CONF_BATTERY_TYPE, CONF_BATTERY_QUANTITY} :
                     new[k] = old[k]
              /\ dataRef' = passed.data]_vars

\* C7's case: a migrated entry whose old data had a key besides the type
C7_Witness ==
    /\ Migrated
    /\ CONF_DEVICE_ID \in DOMAIN heap[1]
    /\ StoredData[CONF_DEVICE_ID] = heap[1][CONF_DEVICE_ID]
    /\ CONF_BATTERY_QUANTITY \in DOMAIN StoredData
    /\ CONF_BATTERY_QUANTITY \notin DOMAIN heap[1]

DecimalDigits == {"0", "1", "2", "3", "4", "5", "6", "7", "8", "9"}

\* a str of decimal digits that denotes an integer of at least 1
IsPositiveDecimal(q) ==
    /\ q.ty = "str"
    /\ Len(q.v) >= 1
    /\ \A i \in 1..Len(q.v) : q.v[i] \in DecimalDigits
    /\ \E i \in 1..Len(q.v) : q.v[i] # "0"

\* C10: whatever the battery-type string, the quantity a migration stores
\* is a str of decimal digits denoting an integer of at least 1.
C10_QuantityIsPositiveDecimal ==
    Migrated => IsPositiveDecimal(StoredData[CONF_BATTERY_QUANTITY])

(***************************************************************************)
(* Properties of async_setup (checked under SpecSetup)                     *)
(***************************************************************************)
\* the domain configuration in effect: the user's, or the defaults
EffectiveConfig ==
    IF config.present
    THEN config.v
    ELSE [k \in {CONF_ENABLE_AUTODISCOVERY, CONF_SHOW_ALL_DEVICES,
                 CONF_ENABLE_REPLACED} |-> k # CONF_SHOW_ALL_DEVICES]
DiscoveryStarted == \E i \in 1..Len(setupLog) : setupLog[i] = "discovery_started"
Before(a, b) ==
    \E i, j \in 1..Len(setupLog) : i < j /\ setupLog[i] = a /\ setupLog[j] = b
DiscoveryInOrder ==
    DiscoveryStarted =>
        /\ Before("coordinator_stored", "discovery_started")
        /\ Before("library_updated", "discovery_started")
        /\ Before("refreshed", "discovery_started")
        /\ DATA_COORDINATOR \in DOMAIN hassData
HostSupported ==
    ~(haVersion[1] < 2023 \/ (haVersion[1] = 2023 /\ haVersion[2] < 7))

\* C8 as stated: async_setup starts discovery if and only if autodiscovery
\* is enabled in the effective configuration, after the coordinator is
\* stored, the library updated and the coordinator refreshed, and returns
\* True in both cases.
C8_DiscoveryIffEnabled ==
    /\ DiscoveryInOrder
    /\ setupPc = "returned" =>
           /\ DiscoveryStarted <=> EffectiveConfig[CONF_ENABLE_AUTODISCOVERY]
           /\ setupRet = "True"

\* C8 amended: the same, on a host of version MIN_HA_VERSION or later.
C8_DiscoveryIffEnabledOnSupportedHost ==
    /\ DiscoveryInOrder
    /\ (setupPc = "returned" /\ HostSupported) =>
           /\ DiscoveryStarted <=> EffectiveConfig[CONF_ENABLE_AUTODISCOVERY]
           /\ setupRet = "True"
           /\ hassData[DOMAIN_CONFIG] = EffectiveConfig

\* C8's case: no domain configuration, so the defaults, and discovery ran
C8_Witness ==
    /\ setupPc = "returned"
    /\ ~config.present
    /\ DiscoveryStarted
    /\ setupRet = "True"

(***************************************************************************)
(* Properties of the entry lifecycle and the service (checked under Spec)  *)
(***************************************************************************)
LiveBatteryEntry(id) == id \in BatteryEntries /\ entryState[id] # "removed"

\* the device id a call names, "" when it names none
NamedDevice(data) ==
    IF "device_id" \in DOMAIN data THEN data["device_id"].v ELSE ""
\* the date-time a call supplies, None when it supplies none
Supplied(data) ==
    IF "datetime_replaced" \in DOMAIN data THEN data["datetime_replaced"] ELSE None
\* the battery_notes entries of the device, none for an unknown device
TargetsOf(dev) ==
    IF dev \in DOMAIN deviceRegistry
    THEN {id \in deviceRegistry[dev] : LiveBatteryEntry(id)}
    ELSE {}

\* hours east of UTC: a naive date-time is in the host's zone, +02:00
HoursEast(tz) == IF tz = "UTC" THEN 0 ELSE IF tz = "+01:00" THEN 1 ELSE 2
InUtcNaive(dt) == Datetime(Wall(dt) - HoursEast(TzInfo(dt)), "None")

\* the handler has moved: a call began, went on or returned
HandlerStep ==
    <<call, callLog, callRet, callPc, callIdx, callOrder>>' #
        <<call, callLog, callRet, callPc, callIdx, callOrder>>

\* the log is update, refresh, update, refresh, ...: every update is for
\* the device the call names and carries the one value of the call
LogShape ==
    \A i \in 1..Len(callLog) :
        IF i % 2 = 1
        THEN /\ callLog[i].op = "async_update_device_config"
             /\ callLog[i].device_id = NamedDevice(call)
             /\ DOMAIN callLog[i].data = {"battery_last_replaced"}
             /\ callLog[i].data = callLog[1].data
             /\ Supplied(call) # None =>
                    callLog[i].data["battery_last_replaced"] =
                        InUtcNaive(Supplied(call))
        ELSE callLog[i].op = "async_request_refresh"

\* C3: a battery_replaced call for a device of the registry makes, for
\* each battery_notes entry of the device it comes to, one
\* async_update_device_config for that device with battery_last_replaced
\* and then one async_request_refresh, which it awaits before the next
\* entry; the value is the supplied date-time in UTC without its zone when
\* one is supplied, the UTC time of the call otherwise, and the same for
\* every entry of the call.
C3_OneUpdateOneRefreshPerEntry ==
    /\ []LogShape
    /\ [][(HandlerStep /\ callPc = "idle") =>
             IF TargetsOf(NamedDevice(call')) = {}
             THEN callLog' = <<>> /\ callRet' = "returned" /\ callPc' = "idle"
             ELSE /\ Len(callLog') = 2
                  /\ callPc' = "await_refresh"
                  /\ {callOrder'[j] : j \in 1..Len(callOrder')} =
                         deviceRegistry[NamedDevice(call')]
                  /\ Len(callOrder') =
                         Cardinality(deviceRegistry[NamedDevice(call')])
                  /\ LiveBatteryEntry(callOrder'[callIdx'])
                  /\ \A j \in 1..(callIdx' - 1) : ~LiveBatteryEntry(callOrder'[j])
                  /\ Supplied(call') = None =>
                         callLog'[1].data["battery_last_replaced"] =
                             Datetime(now, "None")]_vars
    /\ [][(HandlerStep /\ callPc = "await_refresh") =>
             LET rest == {j \in (callIdx + 1)..Len(callOrder) :
                             LiveBatteryEntry(callOrder[j])}
             IN  /\ call' = call
                 /\ IF rest = {}
                    THEN callLog' = callLog /\ callRet' = "returned"
                         /\ callPc' = "idle"
                    ELSE /\ Len(callLog') = Len(callLog) + 2
                         /\ SubSeq(callLog', 1, Len(callLog)) = callLog
                         /\ callPc' = "await_refresh"
                         /\ callOrder' = callOrder
                         /\ callIdx' \in rest
                         /\ \A j \in rest : callIdx' <= j]_vars

\* C3's case: a call that supplied a date-time in another zone has updated
\* and refreshed for two entries of its device and returned
C3_Witness ==
    /\ callRet = "returned"
    /\ Len(callLog) = 4
    /\ Supplied(call) # None
    /\ TzInfo(Supplied(call)) = "+01:00"

C5_OneListenerPerSetUpEntry ==
    /\ [](\A e \in BatteryEntries :
             /\ entryState[e] = "loaded" =>
                    updateListeners[e] = 1 /\ onUnload[e] = 1
             /\ entryState[e] \in {"not_loaded", "setup_in_progress", "setup_error"} =>
                    updateListeners[e] = 0)
    /\ [][\A e \in BatteryEntries :
             pendingReloads'[e] > pendingReloads[e] =>
                 /\ pendingReloads'[e] = pendingReloads[e] + 1
                 /\ reloadLog' = <<e>>
                 /\ \A o \in BatteryEntries \ {e} :
                        pendingReloads'[o] = pendingReloads[o]]_vars

\* C5's case: the options of a set-up entry were updated while the other
\* entry is not set up, and one reload of the updated entry waits
C5_Witness ==
    \E e \in BatteryEntries :
        /\ entryState[e] = "loaded"
        /\ reloadLog = <<e>>
        /\ pendingReloads[e] = 1
        /\ \E o \in BatteryEntries \ {e} : entryState[o] = "not_loaded"

\* how many handlers hass.services holds for battery_notes.battery_replaced
Registrations ==
    Cardinality({i \in 1..Len(services) :
                    /\ services[i].domain = "battery_notes"
                    /\ services[i].service = "battery_replaced"})

\* C9: the service is never registered twice; it is registered once as
\* soon as an entry is set up, and once registered it stays so, whatever
\* is unloaded afterwards.
C9_ServiceRegisteredOnce ==
    /\ [](Registrations <= 1)
    /\ [][(\E e \in BatteryEntries :
              entryState[e] # "loaded" /\ entryState'[e] = "loaded") =>
             Registrations' = 1]_vars
    /\ [][Registrations = 1 => Registrations' = 1]_vars

\* C9's case: entries were set up, all are unloaded again, and the
\* service is still there
C9_Witness ==
    /\ Registrations = 1
    /\ \A e \in BatteryEntries : entryState[e] = "not_loaded"

\* C6: a call that names no device, a device the registry does not have,
\* or a device without a battery_notes entry makes no
\* async_update_device_config and no async_request_refresh, and returns.
C6_NoTargetNoEffect ==
    [][(HandlerStep /\ callPc = "idle" /\ TargetsOf(NamedDevice(call')) = {}) =>
          /\ callLog' = <<>>
          /\ callPc' = "idle"
          /\ callRet' = "returned"]_vars

\* C6's case: a call for a device that has entries, none of battery_notes,
\* has returned
C6_Witness ==
    /\ callRet = "returned"
    /\ callPc = "idle"
    /\ NamedDevice(call) = "d2"
    /\ callLog = <<>>

(***************************************************************************)
(* The specifications                                                      *)
(***************************************************************************)
\* Each specification starts the other parts of the integration at rest:
\* async_setup returned, the entry at the current version, no entry set up.
InitMigrate ==
    /\ version \in {1, CONFIG_VERSION, CONFIG_VERSION + 1}
    /\ title \in Titles
    /\ \E s \in Strings : heap = <<OldData(s)>>
    /\ dataRef = 1
    /\ updateCalls = <<>>
    /\ migrateCalls = 0
    /\ lastRet = "none"
    /\ haVersion = MIN_HA_VERSION
    /\ config = Absent
    /\ setupPc = "returned"
    /\ hassData = <<>>
    /\ setupLog = <<>>
    /\ setupRet = "True"
    /\ entryState = [e \in BatteryEntries |-> "not_loaded"]
    /\ entryData \in [BatteryEntries -> EntryDatas]
    /\ \A e \in BatteryEntries : HasDeviceId(entryData[e])
    /\ deviceRegistry =
           [d \in Devices |->
               {e \in BatteryEntries :
                   HasDeviceId(entryData[e]) /\ entryData[e][CONF_DEVICE_ID] = d}
               \cup ForeignIds(d)]
    /\ updateListeners = [e \in BatteryEntries |-> 0]
    /\ onUnload = [e \in BatteryEntries |-> 0]
    /\ pendingReloads = [e \in BatteryEntries |-> 0]
    /\ reloadLog = <<>>
    /\ services = <<>>
    /\ removeLog = <<>>
    /\ coordReads = 0
    /\ callPc = "idle"
    /\ call = CallData("", None)
    /\ datetime_replaced = None
    /\ callOrder = <<>>
    /\ callIdx = 0
    /\ callLog = <<>>
    /\ callRet = "none"
    /\ now = 0

InitSetup ==
    /\ haVersion \in HaVersions
    /\ \/ config = Absent
       \/ \E b \in YamlBools, l \in YamlLibs :
              config = Present(CONFIG_SCHEMA(Yaml(b, l)))
    /\ setupPc = "start"
    /\ hassData = <<>>
    /\ setupLog = <<>>
    /\ setupRet = "none"
    /\ version = CONFIG_VERSION
    /\ title = "Remote"
    /\ heap = <<OldData(<<>>)>>
    /\ dataRef = 1
    /\ updateCalls = <<>>
    /\ migrateCalls = 0
    /\ lastRet = "none"
    /\ entryState = [e \in BatteryEntries |-> "not_loaded"]
    /\ entryData \in [BatteryEntries -> EntryDatas]
    /\ \A e \in BatteryEntries : HasDeviceId(entryData[e])
    /\ deviceRegistry =
           [d \in Devices |->
               {e \in BatteryEntries :
                   HasDeviceId(entryData[e]) /\ entryData[e][CONF_DEVICE_ID] = d}
               \cup ForeignIds(d)]
    /\ updateListeners = [e \in BatteryEntries |-> 0]
    /\ onUnload = [e \in BatteryEntries |-> 0]
    /\ pendingReloads = [e \in BatteryEntries |-> 0]
    /\ reloadLog = <<>>
    /\ services = <<>>
    /\ removeLog = <<>>
    /\ coordReads = 0
    /\ callPc = "idle"
    /\ call = CallData("", None)
    /\ datetime_replaced = None
    /\ callOrder = <<>>
    /\ callIdx = 0
    /\ callLog = <<>>
    /\ callRet = "none"
    /\ now = 0

Init ==
    /\ entryState = [e \in BatteryEntries |-> "not_loaded"]
    /\ entryData \in [BatteryEntries -> EntryDatas]
    /\ \E e \in BatteryEntries : HasDeviceId(entryData[e])
    /\ deviceRegistry =
           [d \in Devices |->
               {e \in BatteryEntries :
                   HasDeviceId(entryData[e]) /\ entryData[e][CONF_DEVICE_ID] = d}
               \cup ForeignIds(d)]
    /\ updateListeners = [e \in BatteryEntries |-> 0]
    /\ onUnload = [e \in BatteryEntries |-> 0]
    /\ pendingReloads = [e \in BatteryEntries |-> 0]
    /\ reloadLog = <<>>
    /\ services = <<>>
    /\ removeLog = <<>>
    /\ coordReads = 0
    /\ callPc = "idle"
    /\ call = CallData("", None)
    /\ datetime_replaced = None
    /\ callOrder = <<>>
    /\ callIdx = 0
    /\ callLog = <<>>
    /\ callRet = "none"
    /\ now = 0
    /\ version = CONFIG_VERSION
    /\ title = "Remote"
    /\ heap = <<OldData(<<>>)>>
    /\ dataRef = 1
    /\ updateCalls = <<>>
    /\ migrateCalls = 0
    /\ lastRet = "none"
    /\ haVersion = MIN_HA_VERSION
    /\ config = Absent
    /\ setupPc = "returned"
    /\ hassData = <<>>
    /\ setupLog = <<>>
    /\ setupRet = "True"

NextMigrate == async_migrate_entry

SpecMigrate == InitMigrate /\ [][NextMigrate]_vars

NextSetup == async_setup

SpecSetup == InitSetup /\ [][NextSetup]_vars

Next ==
    \/ \E e \in BatteryEntries : SetupEntryBegin(e)
    \/ \E e \in BatteryEntries, ok \in BOOLEAN : async_setup_entry(e, ok)
    \/ \E e \in BatteryEntries, ok \in BOOLEAN : async_unload_entry(e, ok)
    \/ \E e \in BatteryEntries : OptionsUpdated(e)
    \/ \E e \in BatteryEntries, ok \in BOOLEAN : async_update_options(e, ok)
    \/ \E e \in BatteryEntries : async_remove_entry(e)
    \/ \E dev \in {""} \cup Devices \cup {"d3"},
          dt \in {None} \cup SuppliedDatetimes : handle_battery_replaced(dev, dt)
    \/ RefreshDone
    \/ Tick

Spec == Init /\ [][Next]_vars

=============================================================================
